---- MODULE Spec2Model ----
(***************************************************************************)
(* The fixed-point TSC arithmetic of src/src/math.rs (freq_multiplier,     *)
(* calc_tsc_offset, tsc_offset, guest_tsc) as operators, and a state       *)
(* machine that draws their arguments and applies them.                    *)
(*                                                                         *)
(* Machine integers are scaled: the u64 of the source is a word of         *)
(* WordBits bits, its u128 a double word of 2 * WordBits bits and its u32  *)
(* a half word of WordBits \div 2 bits: the state space stays finite and   *)
(* small, and every overflow the code guards against (ratio, scale,        *)
(* offset, addition) still occurs.                                         *)
(* The literal 64 of the source is WordBits, 128 is 2 * WordBits and 63 is *)
(* WordBits - 1.  The u8 that holds bit counts keeps its real range.       *)
(***************************************************************************)
EXTENDS Integers, Sequences, FiniteSets, TLC

\* Width in bits of the model's "u64".
WordBits == 4

\* Largest value of the u8 that holds int_size, frac_size and shift counts.
U8Max == 255

HalfBits == WordBits \div 2
U32Max == 2^HalfBits - 1
U64Max == 2^WordBits - 1
U128Max == 2^(2 * WordBits) - 1
I64Max == 2^(WordBits - 1) - 1
I64Min == -(2^(WordBits - 1))

----------------------------------------------------------------------------
\* Outcomes of a call: a value, one of the errors the code returns, or a panic
\* (a failed assert!, an arithmetic overflow or an out-of-range shift).

Ok(v) == [tag |-> "Ok", val |-> v]
Err(e) == [tag |-> e, val |-> 0]
Panic == [tag |-> "Panic", val |-> 0]
NotCalled == [tag |-> "NotCalled", val |-> 0]

ErrorTags == {"RatioOverflow", "ScaleOverflow", "OffsetOverflow", "AdditionOverflow"}

IsOk(r) == r.tag = "Ok"
IsErr(r) == r.tag \in ErrorTags
IsPanic(r) == r.tag = "Panic"

\* Option<u8>: None is the empty tuple, Some(i) the tuple <<i>>.
None == << >>
Some(i) == <<i>>

----------------------------------------------------------------------------
\* Machine arithmetic.

\* Bitwise and of two naturals.
RECURSIVE BitAnd(_, _)
BitAnd(a, b) ==
    IF a = 0 \/ b = 0 THEN 0
    ELSE (IF a % 2 = 1 /\ b % 2 = 1 THEN 1 ELSE 0) + 2 * BitAnd(a \div 2, b \div 2)

\* `x as u64` and `x as u128`: keep the low bits (two's complement for x < 0).
as_u64(x) == x % 2^WordBits
as_u128(x) == x % 2^(2 * WordBits)

\* `x as i64` of a u64.
as_i64(x) == IF x > I64Max THEN x - 2^WordBits ELSE x

\* A checked operation on machine integers: the value if it lies in lo..hi,
\* otherwise the overflow panic.
Checked(v, lo, hi) == IF v >= lo /\ v <= hi THEN Ok(v) ELSE Panic

----------------------------------------------------------------------------
\* src/src/math.rs

\* Hz per kHz, 1000 in the source, scaled with the word so that one second of
\* ticks of every frequency is a small part of a word.
HZ_PER_KHZ == WordBits \div 2

\* The fixed-point formats of the two architectures (8.32 and 16.48 in a
\* 64-bit word), scaled with the word; the integer part keeps at least one bit.
INT_SIZE_AMD == WordBits \div 4
FRAC_SIZE_AMD == WordBits \div 2
INT_SIZE_INTEL == WordBits \div 4
FRAC_SIZE_INTEL == (3 * WordBits) \div 4

\* The ratios the tests call reasonable: MIN_RATIO ..= MAX_RATIO (1 ..= 15,
\* four bits of a 64-bit word), scaled with the word.
RatioBits == WordBits \div 2
MIN_RATIO == 1
MAX_RATIO == 2^RatioBits - 1

\* fixed_point_int_size_64 with the last assertion strict: int_size + frac_size < 64.
fixed_point_int_size_64_strict(frac_size, int_opt) ==
    IF ~(frac_size > 0) THEN Panic
    ELSE IF ~(frac_size < WordBits) THEN Panic
    ELSE LET int_size == IF int_opt # None THEN int_opt[1] ELSE WordBits - frac_size
             sum == Checked(int_size + frac_size, 0, U8Max)
         IN  IF IsPanic(sum) THEN Panic
             ELSE IF ~(sum.val < WordBits) THEN Panic
             ELSE Ok(int_size)

fixed_point_int_size_64(frac_size, int_opt) ==
    IF ~(frac_size > 0) THEN Panic
    ELSE IF ~(frac_size < WordBits) THEN Panic
    ELSE LET int_size == IF int_opt # None THEN int_opt[1] ELSE WordBits - frac_size
             sum == Checked(int_size + frac_size, 0, U8Max)
         IN  IF IsPanic(sum) THEN Panic
             ELSE IF ~(sum.val <= WordBits) THEN Panic
             ELSE Ok(int_size)

\* fixed_point_overflow with the integer bits taken off the word instead of
\* added to the fraction: a larger int_size leaves fewer bits.
fixed_point_overflow_narrowing(val, int_size, frac_size) ==
    LET mask == U128Max - (U128Max \div 2^(WordBits + int_size))
    IN  Ok(BitAnd(val, mask) # 0)

\* fixed_point_overflow that tests against the whole word, whatever the format.
fixed_point_overflow_word(val, int_size, frac_size) ==
    LET mask == U128Max - (U128Max \div 2^WordBits)
    IN  Ok(BitAnd(val, mask) # 0)

\* Returns true if `val` will overflow `int_size + frac_size` bits
fixed_point_overflow(val, int_size, frac_size) ==
    LET d1 == Checked(WordBits - int_size, 0, U8Max)
        d2 == Checked(d1.val - frac_size, 0, U8Max)
        n_unused_bits == Checked(WordBits + d2.val, 0, U8Max)
    IN  IF IsPanic(d1) \/ IsPanic(d2) \/ IsPanic(n_unused_bits) THEN Panic
        ELSE IF n_unused_bits.val >= 2 * WordBits THEN Panic
        ELSE LET mask == U128Max - (U128Max \div 2^(n_unused_bits.val))
             IN  Ok(BitAnd(val, mask) # 0)

\* overflow_64 with the mask one bit too wide: the top bit of a word counts as overflow.
overflow_64_top_bit(val) ==
    LET mask == U128Max - (U128Max \div 2^(WordBits + 1))
    IN  BitAnd(val, mask) # 0

\* Returns true if `val` will overflow a word
overflow_64(val) ==
    LET mask == U128Max - (U128Max \div 2^WordBits)
    IN  BitAnd(val, mask) # 0

\* freq_multiplier with the division rounded to nearest.
freq_multiplier_rounded(guest_khz, host_khz, frac_size, int_opt) ==
    IF guest_khz = 0 THEN Panic
    ELSE IF host_khz = 0 THEN Panic
    ELSE LET int_size == fixed_point_int_size_64(frac_size, int_opt)
         IN  IF IsPanic(int_size) THEN Panic
             ELSE LET scaling_factor == Checked(2^frac_size, 0, U64Max)
                      product == Checked(scaling_factor.val * guest_khz, 0, U128Max)
                      multiplier == (product.val + host_khz \div 2) \div host_khz
                      overflow == fixed_point_overflow(multiplier, int_size.val, frac_size)
                  IN  IF IsPanic(scaling_factor) \/ IsPanic(product) \/ IsPanic(overflow)
                      THEN Panic
                      ELSE IF overflow.val THEN Err("RatioOverflow")
                      ELSE Ok(as_u64(multiplier))

freq_multiplier(guest_khz, host_khz, frac_size, int_opt) ==
    IF guest_khz = 0 THEN Panic
    ELSE IF host_khz = 0 THEN Panic
    ELSE LET int_size == fixed_point_int_size_64(frac_size, int_opt)
         IN  IF IsPanic(int_size) THEN Panic
             ELSE LET scaling_factor == Checked(2^frac_size, 0, U64Max)
                      product == Checked(scaling_factor.val * guest_khz, 0, U128Max)
                      multiplier == product.val \div host_khz
                      overflow == fixed_point_overflow(multiplier, int_size.val, frac_size)
                  IN  IF IsPanic(scaling_factor) \/ IsPanic(product) \/ IsPanic(overflow)
                      THEN Panic
                      ELSE IF overflow.val THEN Err("RatioOverflow")
                      ELSE Ok(as_u64(multiplier))

\* host_tsc_scaled with the product formed in a word: its high half is lost.
host_tsc_scaled_wrapping(tsc, multiplier, frac_size) ==
    IF frac_size >= 2 * WordBits THEN Panic
    ELSE Ok(as_u64(tsc * multiplier) \div 2^frac_size)

\* (tsc * multiplier) >> frac_size in a double word: the scaling step of
\* calc_tsc_offset and of guest_tsc.
host_tsc_scaled(tsc, multiplier, frac_size) ==
    LET product == Checked(tsc * multiplier, 0, U128Max)
    IN  IF IsPanic(product) \/ frac_size >= 2 * WordBits THEN Panic
        ELSE Ok(product.val \div 2^frac_size)

\* calc_tsc_offset with the sign the other way round: host_tsc * ratio - guest_tsc.
calc_tsc_offset_flipped(initial_host_tsc, initial_guest_tsc, multiplier, frac_size, int_opt) ==
    LET int_size == fixed_point_int_size_64(frac_size, int_opt)
        scaled == host_tsc_scaled(initial_host_tsc, multiplier, frac_size)
    IN  IF IsPanic(int_size) \/ IsPanic(scaled) THEN Panic
        ELSE IF overflow_64(scaled.val) THEN Err("ScaleOverflow")
        ELSE LET negate == ~(as_u64(scaled.val) >= initial_guest_tsc)
                 diff == IF ~negate
                         THEN as_u64(scaled.val) - initial_guest_tsc
                         ELSE initial_guest_tsc - as_u64(scaled.val)
             IN  IF BitAnd(diff, 2^(WordBits - 1)) # 0 THEN Err("OffsetOverflow")
                 ELSE IF negate THEN Checked(-(as_i64(diff)), I64Min, I64Max)
                 ELSE Ok(as_i64(diff))

\* calc_tsc_offset that admits every difference a signed word can hold once
\* negated: the top bit is rejected only above 2^(WordBits-1) or when the
\* difference is not negated.
calc_tsc_offset_min(initial_host_tsc, initial_guest_tsc, multiplier, frac_size, int_opt) ==
    LET int_size == fixed_point_int_size_64(frac_size, int_opt)
        scaled == host_tsc_scaled(initial_host_tsc, multiplier, frac_size)
    IN  IF IsPanic(int_size) \/ IsPanic(scaled) THEN Panic
        ELSE IF overflow_64(scaled.val) THEN Err("ScaleOverflow")
        ELSE LET negate == as_u64(scaled.val) >= initial_guest_tsc
                 diff == IF negate
                         THEN as_u64(scaled.val) - initial_guest_tsc
                         ELSE initial_guest_tsc - as_u64(scaled.val)
             IN  IF diff > 2^(WordBits - 1) \/ (~negate /\ diff = 2^(WordBits - 1))
                 THEN Err("OffsetOverflow")
                 ELSE IF negate THEN Ok(-diff)
                 ELSE Ok(diff)

\* TSC offset = - (host_tsc * ratio - guest_tsc)
calc_tsc_offset(initial_host_tsc, initial_guest_tsc, multiplier, frac_size, int_opt) ==
    LET int_size == fixed_point_int_size_64(frac_size, int_opt)
        scaled == host_tsc_scaled(initial_host_tsc, multiplier, frac_size)
    IN  IF IsPanic(int_size) \/ IsPanic(scaled) THEN Panic
        ELSE IF overflow_64(scaled.val) THEN Err("ScaleOverflow")
        ELSE LET negate == as_u64(scaled.val) >= initial_guest_tsc
                 diff == IF negate
                         THEN as_u64(scaled.val) - initial_guest_tsc
                         ELSE initial_guest_tsc - as_u64(scaled.val)
             IN  IF BitAnd(diff, 2^(WordBits - 1)) # 0 THEN Err("OffsetOverflow")
                 ELSE IF negate THEN Checked(-(as_i64(diff)), I64Min, I64Max)
                 ELSE Ok(as_i64(diff))

\* tsc_offset with the two frequencies handed to freq_multiplier in the other order.
tsc_offset_swapped(initial_host_tsc, initial_guest_tsc, guest_khz, host_khz, frac_size, int_opt) ==
    LET multiplier == freq_multiplier(host_khz, guest_khz, frac_size, int_opt)
    IN  IF ~IsOk(multiplier) THEN multiplier
        ELSE calc_tsc_offset(initial_host_tsc, initial_guest_tsc, multiplier.val,
                             frac_size, int_opt)

tsc_offset(initial_host_tsc, initial_guest_tsc, guest_khz, host_khz, frac_size, int_opt) ==
    LET multiplier == freq_multiplier(guest_khz, host_khz, frac_size, int_opt)
    IN  IF ~IsOk(multiplier) THEN multiplier
        ELSE calc_tsc_offset(initial_host_tsc, initial_guest_tsc, multiplier.val,
                             frac_size, int_opt)

\* guest_tsc that subtracts the offset from the scaled host TSC.
guest_tsc_sub_offset(initial_host_tsc, initial_guest_tsc, host_khz, guest_khz, cur_host_tsc, frac_size, int_opt) ==
    LET multiplier == freq_multiplier(guest_khz, host_khz, frac_size, int_opt)
    IN  IF ~IsOk(multiplier) THEN multiplier
        ELSE LET offset == calc_tsc_offset(initial_host_tsc, initial_guest_tsc,
                                           multiplier.val, frac_size, int_opt)
             IN  IF ~IsOk(offset) THEN offset
                 ELSE LET int_size == fixed_point_int_size_64(frac_size, int_opt)
                          scaled == host_tsc_scaled(cur_host_tsc, multiplier.val, frac_size)
                      IN  IF IsPanic(int_size) \/ IsPanic(scaled) THEN Panic
                          ELSE IF overflow_64(scaled.val) THEN Err("ScaleOverflow")
                          ELSE LET sum == scaled.val - offset.val
                                   mask == U128Max - (U128Max \div 2^WordBits)
                               IN  IF BitAnd(mask, as_u128(sum)) # 0
                                   THEN Err("AdditionOverflow")
                                   ELSE Ok(as_u64(sum))

\* guest_tsc that anchors every segment at guest TSC 0, as at boot.
guest_tsc_boot_anchor(initial_host_tsc, initial_guest_tsc, host_khz, guest_khz, cur_host_tsc, frac_size, int_opt) ==
    LET multiplier == freq_multiplier(guest_khz, host_khz, frac_size, int_opt)
    IN  IF ~IsOk(multiplier) THEN multiplier
        ELSE LET offset == calc_tsc_offset(initial_host_tsc, 0,
                                           multiplier.val, frac_size, int_opt)
             IN  IF ~IsOk(offset) THEN offset
                 ELSE LET int_size == fixed_point_int_size_64(frac_size, int_opt)
                          scaled == host_tsc_scaled(cur_host_tsc, multiplier.val, frac_size)
                      IN  IF IsPanic(int_size) \/ IsPanic(scaled) THEN Panic
                          ELSE IF overflow_64(scaled.val) THEN Err("ScaleOverflow")
                          ELSE LET sum == scaled.val + offset.val
                                   mask == U128Max - (U128Max \div 2^WordBits)
                               IN  IF BitAnd(mask, as_u128(sum)) # 0
                                   THEN Err("AdditionOverflow")
                                   ELSE Ok(as_u64(sum))

\* guest_tsc with the sum formed in a word and not checked: it wraps.
guest_tsc_wrapping(initial_host_tsc, initial_guest_tsc, host_khz, guest_khz, cur_host_tsc, frac_size, int_opt) ==
    LET multiplier == freq_multiplier(guest_khz, host_khz, frac_size, int_opt)
    IN  IF ~IsOk(multiplier) THEN multiplier
        ELSE LET offset == calc_tsc_offset(initial_host_tsc, initial_guest_tsc,
                                           multiplier.val, frac_size, int_opt)
             IN  IF ~IsOk(offset) THEN offset
                 ELSE LET int_size == fixed_point_int_size_64(frac_size, int_opt)
                          scaled == host_tsc_scaled(cur_host_tsc, multiplier.val, frac_size)
                      IN  IF IsPanic(int_size) \/ IsPanic(scaled) THEN Panic
                          ELSE IF overflow_64(scaled.val) THEN Err("ScaleOverflow")
                          ELSE Ok(as_u64(scaled.val + offset.val))

guest_tsc(initial_host_tsc, initial_guest_tsc, host_khz, guest_khz, cur_host_tsc, frac_size, int_opt) ==
    LET multiplier == freq_multiplier(guest_khz, host_khz, frac_size, int_opt)
    IN  IF ~IsOk(multiplier) THEN multiplier
        ELSE LET offset == calc_tsc_offset(initial_host_tsc, initial_guest_tsc,
                                           multiplier.val, frac_size, int_opt)
             IN  IF ~IsOk(offset) THEN offset
                 ELSE LET int_size == fixed_point_int_size_64(frac_size, int_opt)
                          scaled == host_tsc_scaled(cur_host_tsc, multiplier.val, frac_size)
                      IN  IF IsPanic(int_size) \/ IsPanic(scaled) THEN Panic
                          ELSE IF overflow_64(scaled.val) THEN Err("ScaleOverflow")
                          ELSE LET sum == scaled.val + offset.val
                                   mask == U128Max - (U128Max \div 2^WordBits)
                               IN  IF BitAnd(mask, as_u128(sum)) # 0
                                   THEN Err("AdditionOverflow")
                                   ELSE Ok(as_u64(sum))

\* tsc + freq_khz * 1000, an unchecked u64 addition: when the sum does not fit
\* a debug build panics and a release build wraps, so the outcome is a set.
tsc_incr(tsc, freq_khz) == LET sum == tsc + freq_khz * HZ_PER_KHZ IN IF sum <= U64Max THEN {Ok(sum)} ELSE {Panic, Ok(as_u64(sum))}

----------------------------------------------------------------------------
\* src/src/asm_math.rs: the reference implementation.  Its arithmetic is
\* unchecked, so where an i64 operation overflows the outcome is a set: the
\* panic of a debug build and the wrapped value of a release build.

\* The fault of the external routine (the division traps).
Fault == [tag |-> "Fault", val |-> 0]

\* An i64 result of unchecked arithmetic.
unchecked_i64(v) == IF v >= I64Min /\ v <= I64Max THEN {Ok(v)} ELSE {Panic, Ok(as_i64(as_u64(v)))}

\* extern calc_freq_multiplier: floor(guest_hz * 2^frac_size / host_hz); the
\* division faults when the divisor is 0 or the quotient does not fit a word.
calc_freq_multiplier(guest_hz, host_hz, frac_size) ==
    IF host_hz = 0 THEN Fault
    ELSE LET quotient == (guest_hz * 2^frac_size) \div host_hz
         IN  IF quotient > U64Max THEN Fault ELSE Ok(quotient)

\* extern scale_tsc: the low word of (tsc * multiplier) >> frac_size.
scale_tsc(tsc, multiplier, frac_size) == as_u64((tsc * multiplier) \div 2^frac_size)

\* asm_math::calc_tsc_offset
asm_calc_tsc_offset(initial_host_tsc, initial_guest_tsc, guest_hz, host_hz, frac_size) ==
    LET m == calc_freq_multiplier(guest_hz, host_hz, frac_size)
    IN  IF ~IsOk(m) THEN {m}
        ELSE LET scaled == scale_tsc(initial_host_tsc, m.val, frac_size)
                 negate == scaled >= initial_guest_tsc
                 diff == IF negate THEN scaled - initial_guest_tsc ELSE initial_guest_tsc - scaled
             IN  IF negate THEN unchecked_i64(-(as_i64(diff))) ELSE {Ok(as_i64(diff))}

\* asm_math::calc_guest_tsc
asm_calc_guest_tsc(initial_host_tsc, initial_guest_tsc, host_hz, guest_hz, cur_host_tsc, frac_size) ==
    LET m == calc_freq_multiplier(guest_hz, host_hz, frac_size)
    IN  IF ~IsOk(m) THEN {m}
        ELSE UNION { IF ~IsOk(offset) THEN {offset}
                     ELSE LET scaled == scale_tsc(cur_host_tsc, m.val, frac_size)
                          IN  { IF IsOk(sum) THEN Ok(as_u64(sum.val)) ELSE sum :
                                    sum \in unchecked_i64(as_i64(scaled) + offset.val) } :
                     offset \in asm_calc_tsc_offset(initial_host_tsc, initial_guest_tsc, guest_hz, host_hz, frac_size) }

----------------------------------------------------------------------------
\* The arguments the calls are made with.

\* How far from 0, from the sign bit and from the largest word the TSC
\* arguments reach.
TscEdge == 3

Words == 0 .. U64Max

TscValues ==
    { v \in Words : \/ v <= TscEdge - 1
                    \/ v >= U64Max - (TscEdge - 1)
                    \/ (v >= 2^(WordBits - 1) - TscEdge /\ v <= 2^(WordBits - 1) + TscEdge) }

FreqValues == 1 .. U32Max

\* The valid formats: 1 <= frac_size < WordBits and int either omitted or
\* 1 <= int with int + frac_size <= WordBits.
Formats ==
    { fmt \in (1 .. WordBits - 1) \X ({None} \cup {Some(i) : i \in 1 .. WordBits - 1}) :
        fmt[2] = None \/ fmt[2][1] + fmt[1] <= WordBits }

VARIABLES
    ihtsc,      \* initial_host_tsc of the anchor
    igtsc,      \* initial_guest_tsc of the anchor
    gf,         \* guest frequency
    hf,         \* host frequency
    chtsc,      \* cur_host_tsc
    mult,       \* the multiplier handed to calc_tsc_offset
    frac,       \* frac_size
    int,        \* int_opt
    op,         \* the last call made
    res         \* its outcome

\* The state of cmd_simulate.
VARIABLES
    duration,           \* seconds to simulate
    guest_hz,           \* guest frequency
    hosts,              \* the host definitions, sorted by start
    arch,               \* "Amd" or "Intel"
    cur_h,              \* index of the current host, from 0 (h)
    t,                  \* the time of the next iteration
    start_guest_tsc,    \* guest TSC of the current anchor
    cur_guest_tsc,      \* the guest TSC last computed
    cur_host_tsc,       \* host TSC of the next iteration
    rows,               \* the rows printed so far
    report,             \* what was printed to stderr, if anything
    pc                  \* where cmd_simulate is

engine == <<ihtsc, igtsc, gf, hf, chtsc, mult, frac, int, op, res>>
simulator == <<duration, guest_hz, hosts, arch, cur_h, t, start_guest_tsc, cur_guest_tsc, cur_host_tsc, rows, report, pc>>
vars == <<engine, simulator>>

\* cmd_simulate is not running.
SimIdle ==
    /\ duration = 0
    /\ guest_hz = 1
    /\ hosts = << >>
    /\ arch = "Amd"
    /\ cur_h = 0
    /\ t = 0
    /\ start_guest_tsc = 0
    /\ cur_guest_tsc = 0
    /\ cur_host_tsc = 0
    /\ rows = << >>
    /\ report = << >>
    /\ pc = "idle"

\* Before any call: a valid format is chosen, the other arguments are not yet drawn.
Init ==
    /\ \E fmt \in Formats : frac = fmt[1] /\ int = fmt[2]
    /\ ihtsc = 0
    /\ igtsc = 0
    /\ chtsc = 0
    /\ gf = 1
    /\ hf = 1
    /\ mult = 0
    /\ op = "init"
    /\ res = NotCalled
    /\ SimIdle

\* The format resolver called on its own, with any split, valid or not.
FracArgs == 0 .. WordBits + 1
IntArgs == {None} \cup {Some(i) : i \in 0 .. WordBits + 1}

call_fixed_point_int_size_64 ==
    /\ op = "init"
    /\ \E f \in FracArgs, i \in IntArgs :
          /\ frac' = f
          /\ int' = i
          /\ res' = fixed_point_int_size_64(f, i)
    /\ op' = "fixed_point_int_size_64"
    /\ UNCHANGED <<ihtsc, igtsc, gf, hf, chtsc, mult>>
    /\ UNCHANGED simulator

\* The TSC values calc_tsc_offset_max_ratio keeps: those with at most
\* 64 - 4 = 60 significant bits.
SmallTscValues == 0 .. 2^(WordBits - RatioBits) - 1

\* The property test calc_tsc_offset_max_ratio: an integer ratio as the
\* multiplier, the fraction size of AMD with either integer size.
calc_tsc_offset_max_ratio ==
    /\ op = "init"
    /\ frac = FRAC_SIZE_AMD
    /\ int \in {Some(INT_SIZE_AMD), Some(INT_SIZE_INTEL)}
    /\ \E ih \in SmallTscValues, ig \in SmallTscValues, ratio \in MIN_RATIO .. MAX_RATIO :
          LET m == ratio * 2^frac
          IN  /\ ihtsc' = ih
              /\ igtsc' = ig
              /\ mult' = m
              /\ res' = calc_tsc_offset(ih, ig, m, frac, int)
    /\ op' = "calc_tsc_offset_max_ratio"
    /\ UNCHANGED <<gf, hf, chtsc, frac, int>>
    /\ UNCHANGED simulator

\* The reference implementation has no int_size: it is called with the format
\* frac_size.(word - frac_size).
call_asm_calc_tsc_offset ==
    /\ op = "init"
    /\ int = None
    /\ \E ih \in TscValues, ig \in TscValues, g \in FreqValues, h \in FreqValues :
          /\ ihtsc' = ih
          /\ igtsc' = ig
          /\ gf' = g
          /\ hf' = h
          /\ res' \in asm_calc_tsc_offset(ih, ig, g, h, frac)
    /\ op' = "asm_calc_tsc_offset"
    /\ UNCHANGED <<chtsc, mult, frac, int>>
    /\ UNCHANGED simulator

call_asm_calc_guest_tsc ==
    /\ op = "init"
    /\ int = None
    /\ \E ih \in TscValues, ig \in TscValues, h \in FreqValues, g \in FreqValues, ch \in TscValues :
          /\ ihtsc' = ih
          /\ igtsc' = ig
          /\ hf' = h
          /\ gf' = g
          /\ chtsc' = ch
          /\ res' \in asm_calc_guest_tsc(ih, ig, h, g, ch, frac)
    /\ op' = "asm_calc_guest_tsc"
    /\ UNCHANGED <<mult, frac, int>>
    /\ UNCHANGED simulator

call_freq_multiplier ==
    /\ op = "init"
    /\ \E g \in FreqValues, h \in FreqValues :
          /\ gf' = g
          /\ hf' = h
          /\ res' = freq_multiplier(g, h, frac, int)
    /\ op' = "freq_multiplier"
    /\ UNCHANGED <<ihtsc, igtsc, chtsc, mult, frac, int>>
    /\ UNCHANGED simulator

call_calc_tsc_offset ==
    /\ op = "init"
    /\ \E ih \in TscValues, ig \in TscValues, m \in Words :
          /\ ihtsc' = ih
          /\ igtsc' = ig
          /\ mult' = m
          /\ res' = calc_tsc_offset(ih, ig, m, frac, int)
    /\ op' = "calc_tsc_offset"
    /\ UNCHANGED <<gf, hf, chtsc, frac, int>>
    /\ UNCHANGED simulator

call_tsc_offset ==
    /\ op = "init"
    /\ \E ih \in TscValues, ig \in TscValues, g \in FreqValues, h \in FreqValues :
          /\ ihtsc' = ih
          /\ igtsc' = ig
          /\ gf' = g
          /\ hf' = h
          /\ res' = tsc_offset(ih, ig, g, h, frac, int)
    /\ op' = "tsc_offset"
    /\ UNCHANGED <<chtsc, mult, frac, int>>
    /\ UNCHANGED simulator

call_guest_tsc ==
    /\ op = "init"
    /\ \E ih \in TscValues, ig \in TscValues, ch \in TscValues,
          g \in FreqValues, h \in FreqValues :
          /\ ihtsc' = ih
          /\ igtsc' = ig
          /\ chtsc' = ch
          /\ gf' = g
          /\ hf' = h
          /\ res' = guest_tsc(ih, ig, h, g, ch, frac, int)
    /\ op' = "guest_tsc"
    /\ UNCHANGED <<mult, frac, int>>
    /\ UNCHANGED simulator

\* The guest, booted with guest TSC 0 and seen at cur_host_tsc >= initial_host_tsc,
\* moves to a host with its own TSC and frequency: the anchor becomes the new
\* host's TSC and the guest TSC just computed, evaluated at the new host's TSC.
migrate ==
    /\ op = "guest_tsc"
    /\ IsOk(res)
    /\ igtsc = 0
    /\ chtsc >= ihtsc
    /\ \E migrate_htsc \in TscValues, migrate_hfreq \in FreqValues :
          /\ ihtsc' = migrate_htsc
          /\ igtsc' = res.val
          /\ hf' = migrate_hfreq
          /\ chtsc' = migrate_htsc
          /\ res' = guest_tsc(migrate_htsc, res.val, migrate_hfreq, gf, migrate_htsc,
                              frac, int)
    /\ op' = "migrate"
    /\ UNCHANGED <<gf, mult, frac, int>>
    /\ UNCHANGED simulator

\* One second after the migration: the destination's TSC advances by
\* tsc_incr and the guest TSC is computed there, from the anchor of the
\* destination's TSC and the guest TSC seen at the migration (the last step of
\* the property test guest_tsc_drift).
one_second_later ==
    /\ op = "migrate"
    /\ IsOk(res)
    /\ \E htsc_future \in tsc_incr(ihtsc, hf) :
          IF IsOk(htsc_future)
          THEN /\ chtsc' = htsc_future.val
               /\ res' = guest_tsc(ihtsc, res.val, hf, gf, htsc_future.val, frac, int)
          ELSE /\ chtsc' = chtsc
               /\ res' = htsc_future
    /\ igtsc' = res.val
    /\ op' = "one_second_later"
    /\ UNCHANGED <<ihtsc, gf, hf, mult, frac, int>>
    /\ UNCHANGED simulator

Next ==
    \/ call_fixed_point_int_size_64
    \/ call_freq_multiplier
    \/ call_calc_tsc_offset
    \/ call_tsc_offset
    \/ call_guest_tsc
    \/ migrate
    \/ call_asm_calc_tsc_offset
    \/ call_asm_calc_guest_tsc
    \/ calc_tsc_offset_max_ratio
    \/ one_second_later

Spec == Init /\ [][Next]_vars

----------------------------------------------------------------------------
\* The simulator: cmd_simulate walks the hosts in order and, for each, the
\* seconds of its segment, printing one row per second.

MaxHosts == 2
MaxDuration == 3

\* Host TSC values at the start of a segment: zero, one second of ticks of the
\* slowest host, and the top of the word.
SimTscValues == {0, HZ_PER_KHZ, U64Max}

\* Host frequencies: with the guest frequencies they give the ratios 1/2, 1,
\* 3/2, 2 and 3.
SimFreqValues == {1, 2}

HostDef == [start : 0 .. MaxDuration, host_tsc : SimTscValues, host_freq : SimFreqValues]

\* What parse_hosts lets through: at least one host, the first starting at 0,
\* no start past the duration, sorted by start (equal starts are not rejected).
HostLists(d) == UNION { { hs \in [1 .. n -> HostDef] : /\ hs[1].start = 0 /\ (\A i \in 1 .. n : hs[i].start <= d) /\ (\A j \in 1 .. n - 1 : hs[j].start <= hs[j + 1].start) } : n \in 1 .. MaxHosts }

\* hosts[i], indexed from 0 as in the source.
Host(i) == hosts[i + 1]
num_hosts == Len(hosts)

int_size == IF arch = "Amd" THEN INT_SIZE_AMD ELSE INT_SIZE_INTEL
frac_size == IF arch = "Amd" THEN FRAC_SIZE_AMD ELSE FRAC_SIZE_INTEL

\* SegmentEnd for a loop over start..end, which leaves the end out.
SegmentEnd_exclusive(i) == (IF num_hosts = i + 1 THEN duration ELSE Host(i + 1).start) - 1

\* The last time of the segment of host i.
SegmentEnd(i) == IF num_hosts = i + 1 THEN duration ELSE Host(i + 1).start

\* cmd_simulate at the top of the first iteration of the first host.
SimInit ==
    /\ duration \in 0 .. MaxDuration
    /\ guest_hz \in FreqValues
    /\ hosts \in HostLists(duration)
    /\ arch \in {"Amd", "Intel"}
    /\ cur_h = 0
    /\ t = hosts[1].start
    /\ start_guest_tsc = 0
    /\ cur_guest_tsc = 0
    /\ cur_host_tsc = hosts[1].host_tsc
    /\ rows = << >>
    /\ report = << >>
    /\ pc = "loop"
    /\ ihtsc = 0 /\ igtsc = 0 /\ chtsc = 0 /\ gf = 1 /\ hf = 1 /\ mult = 0
    /\ frac = 1 /\ int = None /\ op = "simulate" /\ res = NotCalled

\* One iteration of the loop over t: compute the guest TSC, print the row,
\* advance the host TSC by one second.
sim_step ==
    /\ pc = "loop"
    /\ t <= SegmentEnd(cur_h)
    /\ LET r == guest_tsc(Host(cur_h).host_tsc, start_guest_tsc, Host(cur_h).host_freq, guest_hz, cur_host_tsc, frac_size, Some(int_size))
       IN  IF IsOk(r)
           THEN /\ cur_guest_tsc' = r.val
                /\ rows' = Append(rows, [h |-> cur_h, t |-> t, guest_tsc |-> r.val, host_tsc |-> cur_host_tsc])
                /\ \E next \in tsc_incr(cur_host_tsc, Host(cur_h).host_freq) :
                      IF IsOk(next)
                      THEN cur_host_tsc' = next.val /\ t' = t + 1 /\ pc' = "loop"
                      ELSE pc' = "panic" /\ UNCHANGED <<cur_host_tsc, t>>
                /\ UNCHANGED report
           ELSE /\ IF IsErr(r)
                   THEN report' = <<[error |-> r.tag, step |-> None]>> /\ pc' = "failed"
                   ELSE pc' = "panic" /\ UNCHANGED report
                /\ UNCHANGED <<cur_guest_tsc, rows, cur_host_tsc, t>>
    /\ UNCHANGED <<duration, guest_hz, hosts, arch, cur_h, start_guest_tsc>>
    /\ UNCHANGED engine

\* sim_next_host without the assignment to start_guest_tsc: every segment is
\* anchored at the guest TSC of the boot.
sim_next_host_boot_anchor ==
    /\ pc = "loop"
    /\ t > SegmentEnd(cur_h)
    /\ start_guest_tsc' = start_guest_tsc
    /\ IF cur_h + 1 = num_hosts
       THEN pc' = "done" /\ UNCHANGED <<cur_h, t, cur_host_tsc>>
       ELSE /\ cur_h' = cur_h + 1
            /\ t' = Host(cur_h + 1).start
            /\ cur_host_tsc' = Host(cur_h + 1).host_tsc
            /\ pc' = "loop"
    /\ UNCHANGED <<duration, guest_hz, hosts, arch, cur_guest_tsc, rows, report>>
    /\ UNCHANGED engine

\* The segment is over: the guest TSC it ended with becomes the anchor of the
\* next host, or the simulation ends.
sim_next_host ==
    /\ pc = "loop"
    /\ t > SegmentEnd(cur_h)
    /\ start_guest_tsc' = cur_guest_tsc
    /\ IF cur_h + 1 = num_hosts
       THEN pc' = "done" /\ UNCHANGED <<cur_h, t, cur_host_tsc>>
       ELSE /\ cur_h' = cur_h + 1
            /\ t' = Host(cur_h + 1).start
            /\ cur_host_tsc' = Host(cur_h + 1).host_tsc
            /\ pc' = "loop"
    /\ UNCHANGED <<duration, guest_hz, hosts, arch, cur_guest_tsc, rows, report>>
    /\ UNCHANGED engine

SimNext ==
    \/ sim_step
    \/ sim_next_host

SimSpec == SimInit /\ [][SimNext]_vars

----------------------------------------------------------------------------
\* The three public functions of the engine called on their own, with every
\* format.
FormatNext ==
    \/ call_freq_multiplier
    \/ call_tsc_offset
    \/ call_guest_tsc

FormatSpec == Init /\ [][FormatNext]_vars

----------------------------------------------------------------------------
\* The guest TSC read again: guest_tsc is called once more with the same
\* anchor, frequencies and format at a later host TSC, as the simulator does
\* from one second to the next, here for any later host TSC.
guest_tsc_later ==
    /\ op = "guest_tsc"
    /\ IsOk(res)
    /\ \E ch \in TscValues :
          /\ ch > chtsc
          /\ chtsc' = ch
          /\ res' = guest_tsc(ihtsc, igtsc, hf, gf, ch, frac, int)
    /\ op' = "guest_tsc_later"
    /\ UNCHANGED <<ihtsc, igtsc, gf, hf, mult, frac, int>>
    /\ UNCHANGED simulator

\* The engine read twice, with the default integer size of every fraction
\* size, or a run of the simulator, with the formats of the architectures.
LaterInit == (Init /\ int = None) \/ SimInit

LaterNext ==
    \/ call_guest_tsc
    \/ guest_tsc_later
    \/ sim_step
    \/ sim_next_host

LaterSpec == LaterInit /\ [][LaterNext]_vars

----------------------------------------------------------------------------
\* The quantities of the specification, written with exact integer arithmetic
\* on the arguments of the last call.

\* floor((guest_frequency * 2^frac_bits) / host_frequency)
FloorRatio == (gf * 2^frac) \div hf

\* int_bits of the format: the one supplied, or WordBits - frac_bits.
IntBits == IF int = None THEN WordBits - frac ELSE int[1]

\* The ratio fits in int_bits + frac_bits bits.
RatioFits == FloorRatio < 2^(IntBits + frac)

\* The multiplier in effect: the one handed to calc_tsc_offset, otherwise the
\* one of the frequencies.
Multiplier == IF op = "calc_tsc_offset" THEN mult ELSE FloorRatio

\* (counter * multiplier) >> frac_bits, without wrapping.
Scale(counter) == (counter * Multiplier) \div 2^frac

Abs(x) == IF x < 0 THEN -x ELSE x

\* The offset calculation on the anchor succeeds.
OffsetFits ==
    /\ Scale(ihtsc) < 2^WordBits
    /\ Abs(Scale(ihtsc) - igtsc) < 2^(WordBits - 1)

----------------------------------------------------------------------------
\* C1. Continuity at the anchor: whenever guest_tsc is called with cur_host_tsc
\* equal to initial_host_tsc and returns a value, the value is initial_guest_tsc.
ContinuityAtAnchor ==
    (op = "guest_tsc" /\ chtsc = ihtsc /\ IsOk(res)) => res.val = igtsc

\* guest_tsc returned a value at the anchor, for a nonzero anchor and a ratio
\* other than 1.
ContinuityAtAnchorWitness ==
    /\ op = "guest_tsc" /\ chtsc = ihtsc /\ IsOk(res)
    /\ ihtsc > 0 /\ igtsc > 0 /\ gf # hf

\* C2. Migration invariance: if guest_tsc on the source host (anchor
\* (boot_htsc, 0), seen at cur_htsc >= boot_htsc) returns g and guest_tsc on
\* the destination (anchor (migrate_htsc, g), seen at migrate_htsc, with the
\* destination's frequency) returns a value, that value is g.
MigrationInvariance ==
    [][(op = "guest_tsc" /\ op' = "migrate" /\ IsOk(res')) => res'.val = res.val]_vars

\* The destination returned a value for a nonzero guest TSC and a destination
\* whose frequency differs from the guest's.
MigrationInvarianceWitness ==
    op = "migrate" /\ IsOk(res) /\ igtsc > 0 /\ ihtsc > 0 /\ hf # gf

\* C3. Whenever freq_multiplier succeeds its result is exactly
\* floor((guest * 2^frac_bits) / host): truncated, never rounded to nearest.
\* So ratio 1/2 gives 1 << (frac - 1), ratio 1 gives 1 << frac, ratio 3/2 gives
\* (1 << frac) | (1 << (frac - 1)), and 2/3 with frac 2 gives 0b10.
MultiplierIsFloor ==
    (op = "freq_multiplier" /\ IsOk(res)) =>
        /\ res.val = FloorRatio
        /\ (2 * gf = hf) => res.val = 2^(frac - 1)
        /\ (gf = hf) => res.val = 2^frac
        /\ (2 * gf = 3 * hf) => res.val = 2^frac + 2^(frac - 1)
        /\ (3 * gf = 2 * hf /\ frac = 2) => res.val = 2

\* freq_multiplier returned a multiplier whose division left a remainder of
\* more than half the divisor: rounding to nearest would give one more.
MultiplierIsFloorWitness ==
    /\ op = "freq_multiplier" /\ IsOk(res)
    /\ 2 * ((gf * 2^frac) % hf) > hf

\* C4. freq_multiplier fails with the ratio-overflow error if and only if
\* floor(guest * 2^frac_bits / host) has a bit at position >= int_bits +
\* frac_bits, that is exactly when guest >= host * 2^int_bits; otherwise it
\* returns the multiplier.
RatioOverflowIff ==
    op = "freq_multiplier" =>
        /\ res.tag = "RatioOverflow" <=> FloorRatio >= 2^(IntBits + frac)
        /\ res.tag = "RatioOverflow" <=> gf >= hf * 2^IntBits
        /\ res.tag # "RatioOverflow" => res = Ok(FloorRatio)

\* The ratio is rejected by a format narrower than a word, although the
\* multiplier itself fits in a word.
RatioOverflowIffWitness ==
    /\ op = "freq_multiplier" /\ res.tag = "RatioOverflow"
    /\ IntBits + frac < WordBits /\ FloorRatio < 2^WordBits

\* C5. Scaling a counter by a multiplier yields exactly
\* (counter * multiplier) >> frac_bits without wrapping the product, and fails
\* with the scale-overflow error if and only if that value does not fit in a
\* word; for the scaling of initial_host_tsc inside calc_tsc_offset and for the
\* scaling of cur_host_tsc inside guest_tsc. The largest counter scaled by 1.5
\* fails in every format.
ScaleExactOrOverflow ==
    /\ op = "calc_tsc_offset" =>
          /\ res.tag = "ScaleOverflow" <=> Scale(ihtsc) >= 2^WordBits
          /\ IsOk(res) => igtsc - res.val = Scale(ihtsc)
          /\ (ihtsc = U64Max /\ mult = 2^frac + 2^(frac - 1)) => res.tag = "ScaleOverflow"
    /\ op = "guest_tsc" =>
          /\ res.tag = "ScaleOverflow" <=>
                /\ RatioFits
                /\ \/ Scale(ihtsc) >= 2^WordBits
                   \/ OffsetFits /\ Scale(chtsc) >= 2^WordBits
          /\ IsOk(res) => res.val - igtsc = Scale(chtsc) - Scale(ihtsc)

\* guest_tsc fails on the scaling of cur_host_tsc, after the scaling of
\* initial_host_tsc succeeded.
ScaleExactOrOverflowWitness ==
    /\ op = "guest_tsc" /\ res.tag = "ScaleOverflow"
    /\ Scale(ihtsc) < 2^WordBits /\ Scale(chtsc) >= 2^WordBits

\* C6 as stated: when host_tsc_scaled >= initial_guest_tsc the offset is
\* +(host_tsc_scaled - initial_guest_tsc), otherwise
\* -(initial_guest_tsc - host_tsc_scaled).
OffsetSignAsStated ==
    (op \in {"calc_tsc_offset", "tsc_offset"} /\ IsOk(res)) =>
        res.val = IF Scale(ihtsc) >= igtsc
                  THEN Scale(ihtsc) - igtsc
                  ELSE -(igtsc - Scale(ihtsc))

\* C6 as amended: when host_tsc_scaled >= initial_guest_tsc the offset is
\* -(host_tsc_scaled - initial_guest_tsc), otherwise it is
\* +(initial_guest_tsc - host_tsc_scaled): the offset is initial_guest_tsc -
\* host_tsc_scaled.
OffsetSign ==
    (op \in {"calc_tsc_offset", "tsc_offset"} /\ IsOk(res)) =>
        res.val = IF Scale(ihtsc) >= igtsc
                  THEN -(Scale(ihtsc) - igtsc)
                  ELSE igtsc - Scale(ihtsc)

\* An offset was returned for a scaled host TSC above the guest TSC.
OffsetSignWitness ==
    /\ op = "calc_tsc_offset" /\ IsOk(res)
    /\ Scale(ihtsc) > igtsc

\* C7. Composition identity: whenever guest_tsc returns a value, tsc_offset
\* succeeds on the same anchor, frequencies and format, the guest_tsc result is
\* scale(cur_host_tsc) + tsc_offset, and scale(initial_host_tsc) + tsc_offset
\* is initial_guest_tsc.
CompositionIdentity ==
    (op = "guest_tsc" /\ IsOk(res)) =>
        LET offset == tsc_offset(ihtsc, igtsc, gf, hf, frac, int)
        IN  /\ IsOk(offset)
            /\ res.val = Scale(chtsc) + offset.val
            /\ Scale(ihtsc) + offset.val = igtsc

\* guest_tsc returned a value away from the anchor, with a nonzero offset and a
\* ratio other than 1.
CompositionIdentityWitness ==
    /\ op = "guest_tsc" /\ IsOk(res)
    /\ chtsc # ihtsc /\ gf # hf /\ Scale(ihtsc) # igtsc

\* C8. The offset calculation fails with the offset-overflow error if and only
\* if the scaling of initial_host_tsc succeeded and the unsigned difference
\* |scale(initial_host_tsc) - initial_guest_tsc| has its top bit set; so every
\* offset returned lies in -(2^(WordBits-1) - 1) .. 2^(WordBits-1) - 1.
OffsetOverflowIff ==
    (op = "calc_tsc_offset" \/ (op = "tsc_offset" /\ RatioFits)) =>
        /\ res.tag = "OffsetOverflow" <=>
              /\ Scale(ihtsc) < 2^WordBits
              /\ Abs(Scale(ihtsc) - igtsc) >= 2^(WordBits - 1)
        /\ IsOk(res) => (res.val >= -I64Max /\ res.val <= I64Max)

\* A difference of magnitude exactly 2^(WordBits-1), whose negation a signed
\* word could hold, is rejected.
OffsetOverflowIffWitness ==
    /\ op = "calc_tsc_offset" /\ res.tag = "OffsetOverflow"
    /\ Scale(ihtsc) - igtsc = 2^(WordBits - 1)

\* C9. guest_tsc never returns a wrapped value: once the multiplier, the offset
\* and the scaling of cur_host_tsc succeed, it returns scaled + offset when
\* 0 <= scaled + offset < 2^WordBits and fails with the addition-overflow error
\* otherwise, also when cur_host_tsc < initial_host_tsc makes the sum negative.
AdditionChecked ==
    (op = "guest_tsc" /\ RatioFits /\ OffsetFits /\ Scale(chtsc) < 2^WordBits) =>
        LET sum == Scale(chtsc) + (igtsc - Scale(ihtsc))
        IN  IF sum >= 0 /\ sum < 2^WordBits
            THEN res = Ok(sum)
            ELSE res.tag = "AdditionOverflow"

\* guest_tsc fails on a negative sum, seen before the anchor.
AdditionCheckedWitness ==
    /\ op = "guest_tsc" /\ res.tag = "AdditionOverflow"
    /\ chtsc < ihtsc
    /\ Scale(chtsc) + (igtsc - Scale(ihtsc)) < 0

\* C10. No false panics: for frequencies > 0, any TSC arguments (with
\* cur_host_tsc >= initial_host_tsc for guest_tsc) and any valid format,
\* freq_multiplier, tsc_offset and guest_tsc return a value or one of the
\* declared errors: no assertion fails, no arithmetic overflows, no shift is
\* out of range.
NoFalsePanics ==
    (/\ gf > 0 /\ hf > 0
     /\ \/ op \in {"freq_multiplier", "tsc_offset"}
        \/ op = "guest_tsc" /\ chtsc >= ihtsc) =>
        res.tag \in {"Ok"} \cup ErrorTags

\* guest_tsc, called at or after the anchor with a format that fills the word,
\* returned a declared error.
NoFalsePanicsWitness ==
    /\ op = "guest_tsc" /\ chtsc >= ihtsc
    /\ IntBits + frac = WordBits
    /\ res.tag = "AdditionOverflow"

----------------------------------------------------------------------------
\* Claims about the simulator, stated on SimSpec.

\* Host TSC of a segment's iteration at time t, in exact arithmetic.
ExactHostTsc(i, time) == Host(i).host_tsc + (time - Host(i).start) * Host(i).host_freq * HZ_PER_KHZ

\* C11. Overflow is always an explicit, typed failure: no 64-bit quantity is
\* silently wrapped and no overflow raises an uncontrolled fault, the
\* simulator's per-step advance of the host TSC (tsc_incr) included, for any
\* segment host_tsc and host frequency.
OverflowAlwaysExplicit ==
    /\ pc # "panic"
    /\ pc = "loop" => cur_host_tsc = ExactHostTsc(cur_h, t)

----------------------------------------------------------------------------
\* Claims about the engine, continued, stated on Spec.

\* The split is one the specification calls valid.
ValidFormat ==
    /\ frac # 0
    /\ frac < WordBits
    /\ int # None => (int[1] # 0 /\ int[1] + frac <= WordBits)

\* C12. The format resolver returns the resolved int_bits for a valid split
\* (WordBits - frac_bits when int_bits is omitted) and fails with a recoverable
\* InvalidFormat error value, not an uncontrolled fault, when frac_bits == 0,
\* frac_bits >= WordBits, int_bits == 0 when supplied, or
\* int_bits + frac_bits > WordBits.
FormatResolverAsStated ==
    op = "fixed_point_int_size_64" =>
        IF ValidFormat THEN res = Ok(IntBits) ELSE res = Err("InvalidFormat")

\* C13. Scale identity: for every word tsc, the largest included, and every
\* valid frac_bits, scaling tsc by the multiplier 1 << frac_bits succeeds and
\* returns tsc unchanged.  Scaling is a step of guest_tsc and calc_tsc_offset:
\* guest_tsc with equal frequencies and the anchor (0, 0) returns the scaled
\* cur_host_tsc, and calc_tsc_offset with the multiplier 1 << frac_bits does
\* not fail to scale and returns initial_guest_tsc minus the scaled
\* initial_host_tsc.
ScaleIdentity ==
    /\ (op = "guest_tsc" /\ gf = hf /\ ihtsc = 0 /\ igtsc = 0) => res = Ok(chtsc)
    /\ (op = "calc_tsc_offset" /\ mult = 2^frac) =>
           /\ res.tag # "ScaleOverflow"
           /\ IsOk(res) => igtsc - res.val = ihtsc

\* The largest word was scaled by the ratio 1.0 and came back unchanged.
ScaleIdentityWitness ==
    /\ op = "guest_tsc" /\ gf = hf /\ ihtsc = 0 /\ igtsc = 0
    /\ chtsc = U64Max
    /\ res = Ok(U64Max)

\* The scenario of C14 on the scaled word: format 8.32 (INT_SIZE_AMD,
\* FRAC_SIZE_AMD), a guest booted with TSC 0 on a host whose TSC at boot is
\* ihtsc > 0, equal host and guest frequencies, evaluated at twice the boot TSC
\* (1_000_000_000 and 2_000_000_000 in the scenario).
EndToEndCase ==
    /\ op = "guest_tsc"
    /\ frac = FRAC_SIZE_AMD /\ int = Some(INT_SIZE_AMD)
    /\ igtsc = 0 /\ gf = hf
    /\ ihtsc > 0 /\ chtsc = 2 * ihtsc

\* C14, as stated. End-to-end scenario: for a guest booted (initial guest TSC
\* 0) on a host whose TSC at boot is 1_000_000_000, with equal host and guest
\* frequencies and format 8.32, the guest TSC computed at host TSC
\* 2_000_000_000 equals 2_000_000_000.
EndToEndAsStated == EndToEndCase => res = Ok(chtsc)

\* C14, amended. In that scenario the guest TSC computed at host TSC
\* 2_000_000_000 equals 1_000_000_000: the host ticks elapsed since boot, at
\* ratio 1.0, counted from the initial guest TSC 0.
EndToEnd == EndToEndCase => res = Ok(chtsc - ihtsc)

\* The scenario was evaluated and the guest TSC is the boot TSC of the host.
EndToEndWitness == EndToEndCase /\ res = Ok(ihtsc) /\ res.val # chtsc

\* C15. Simulator failure policy: if the guest TSC computation fails at time
\* step t of a segment, the simulation stops at once: no row is emitted for t
\* or for any later step of this or a later segment, the rows of the earlier
\* steps stay, and the failure reported carries the underlying error and
\* identifies the offending time step t.
FailurePolicyAsStated ==
    pc = "failed" =>
        /\ \A k \in 1 .. Len(rows) : rows[k].h < cur_h \/ (rows[k].h = cur_h /\ rows[k].t < t)
        /\ Len(report) = 1
        /\ report[1].error \in ErrorTags
        /\ report[1].step = Some(t)

\* C16. Reference agreement: with the external routines computing
\* floor(guest * 2^frac / host) and (tsc * multiplier) >> frac,
\* asm_math::calc_tsc_offset and asm_math::calc_guest_tsc return what
\* math::tsc_offset and math::guest_tsc return (format frac.(word - frac)) on
\* every input where the math version returns a value, and produce no value on
\* every input where the math version fails.
ReferenceAgreement ==
    /\ op = "asm_calc_tsc_offset" =>
           LET m == tsc_offset(ihtsc, igtsc, gf, hf, frac, None)
           IN  IF IsOk(m) THEN res = m ELSE ~IsOk(res)
    /\ op = "asm_calc_guest_tsc" =>
           LET m == guest_tsc(ihtsc, igtsc, hf, gf, chtsc, frac, None)
           IN  IF IsOk(m) THEN res = m ELSE ~IsOk(res)

\* C17. A reasonable range of ratios is representable: for the format 8.32
\* (and for int_bits 16 with frac_bits 32), every integer ratio r with
\* MIN_RATIO <= r <= MAX_RATIO used as the multiplier r << frac_bits, and every
\* initial host TSC and initial guest TSC whose top RatioBits bits are clear,
\* calc_tsc_offset returns a value and not an error.
RatioRangeRepresentable == op = "calc_tsc_offset_max_ratio" => IsOk(res)

\* C18. No drift one second after a migration: for every valid format and
\* nonzero frequencies, if guest_tsc on the boot host (anchor (boot_htsc, 0),
\* evaluated at cur_htsc >= boot_htsc) returns g and guest_tsc on the
\* destination at the migration instant (anchor (migrate_htsc, g)) returns d,
\* then guest_tsc on the destination with the anchor (migrate_htsc, d)
\* evaluated at tsc_incr(migrate_htsc, migrate_hfreq) succeeds and its result
\* minus d is exactly guest_khz * HZ_PER_KHZ, one second of guest ticks.
NoDriftAfterMigration ==
    op = "one_second_later" =>
        /\ IsOk(res)
        /\ res.val - igtsc = gf * HZ_PER_KHZ

----------------------------------------------------------------------------
\* Claims about the simulator, continued, stated on SimSpec.

\* The rows printed under the header of segment i for the time `time`.
RowsAt(i, time) == { k \in 1 .. Len(rows) : rows[k].h = i /\ rows[k].t = time }

\* The rows printed for the time `time`, under any header.
RowsAtTime(time) == { k \in 1 .. Len(rows) : rows[k].t = time }

\* The start times of the hosts are distinct.
DistinctStarts == \A i \in 1 .. num_hosts - 1 : hosts[i].start < hosts[i + 1].start

\* The times segment i ends at: the next segment's start, or the duration.
EndOf(i) == IF i + 1 = num_hosts THEN duration ELSE Host(i + 1).start

LastRowOf(i) == rows[CHOOSE k \in 1 .. Len(rows) : rows[k].h = i /\ \A j \in 1 .. Len(rows) : rows[j].h = i => j <= k]

\* g_i: 0 for the boot segment, otherwise the last guest TSC computed in
\* segment i - 1.
AnchorGuestTsc(i) == IF i = 0 THEN 0 ELSE LastRowOf(i - 1).guest_tsc

\* C20. Anchor threading: the anchor of every evaluation in segment h is
\* (hosts[h].host_tsc, g_h), with g_0 = 0 and, for h > 0, g_h the last guest
\* TSC computed in segment h - 1; it does not change within a segment; the
\* first guest TSC emitted in segment h is the last one emitted in segment
\* h - 1, and the first row of the run shows guest TSC 0.
AnchorThreading ==
    /\ pc = "loop" => start_guest_tsc = AnchorGuestTsc(cur_h)
    /\ \A k \in 1 .. Len(rows) :
          LET row == rows[k]
          IN  /\ Ok(row.guest_tsc) = guest_tsc(Host(row.h).host_tsc, AnchorGuestTsc(row.h), Host(row.h).host_freq, guest_hz, row.host_tsc, frac_size, Some(int_size))
              /\ (k = 1 \/ rows[k - 1].h # row.h) =>
                    /\ row.host_tsc = Host(row.h).host_tsc
                    /\ row.guest_tsc = AnchorGuestTsc(row.h)
    /\ Len(rows) > 0 => rows[1].guest_tsc = 0

\* A run with a migration ended: the guest TSC had advanced on the boot host
\* and the first row of the destination, whose TSC and frequency differ from
\* the boot host's, shows the guest TSC of the last row of the boot host.
AnchorThreadingWitness ==
    /\ pc = "done"
    /\ num_hosts = 2
    /\ Host(1).host_tsc # Host(0).host_tsc
    /\ Host(1).host_freq # Host(0).host_freq
    /\ LastRowOf(0).guest_tsc > 0
    /\ \E k \in 2 .. Len(rows) :
          /\ rows[k].h = 1 /\ rows[k - 1].h = 0
          /\ rows[k].guest_tsc = rows[k - 1].guest_tsc
          /\ k < Len(rows) /\ rows[k + 1].guest_tsc > rows[k].guest_tsc

\* C21. Host TSC advance: the first row of each segment shows the segment's
\* own host_tsc, and between two consecutive time steps of a segment the host
\* TSC increases by exactly the host frequency, so the row for time t in
\* segment h shows hosts[h].host_tsc + (t - start_h) * host_frequency_h.
HostTscAdvance ==
    \A k \in 1 .. Len(rows) :
        LET row == rows[k]
        IN  /\ (k = 1 \/ rows[k - 1].h # row.h) => row.host_tsc = Host(row.h).host_tsc
            /\ (k > 1 /\ rows[k - 1].h = row.h) => row.host_tsc = rows[k - 1].host_tsc + Host(row.h).host_freq
            /\ row.host_tsc = Host(row.h).host_tsc + (row.t - Host(row.h).start) * Host(row.h).host_freq

----------------------------------------------------------------------------
\* Claims about the engine read twice and the simulator, stated on LaterSpec.

\* The rows up to the k-th show the host TSC without a wrap of the word.
NoWrapUpTo(k) == \A j \in 1 .. k : rows[j].host_tsc = ExactHostTsc(rows[j].h, rows[j].t)

\* C22. The guest TSC never goes backwards: for a fixed anchor, frequencies
\* and format, guest_tsc is non-decreasing in cur_host_tsc over the inputs
\* where it succeeds; hence in a run of the simulator in which the host TSC
\* advance does not pass the word, the guest TSC values emitted are
\* non-decreasing over the whole run, across every migration as well, whatever
\* the destination's TSC and frequency.
GuestTscMonotone ==
    /\ [][(op' = "guest_tsc_later" /\ IsOk(res')) => res'.val >= res.val]_vars
    /\ [](\A k \in 2 .. Len(rows) : NoWrapUpTo(k) => rows[k].guest_tsc >= rows[k - 1].guest_tsc)

\* guest_tsc was read at a later host TSC, with a ratio other than 1, and
\* returned a larger value than the anchor's.
GuestTscMonotoneWitness ==
    /\ op = "guest_tsc_later" /\ IsOk(res)
    /\ gf # hf /\ chtsc > ihtsc
    /\ res.val > igtsc /\ igtsc > 0

----------------------------------------------------------------------------
\* Claims about the format, stated on FormatSpec.

\* The formats with the frac_bits of the last call and more int_bits: every
\* larger supplied int_bits that is valid, and the omitted one (none when the
\* last call omitted int_bits, which is the largest already).
WiderFormats == IF int = None THEN {} ELSE {Some(b) : b \in IntBits + 1 .. WordBits - frac} \cup {None}

\* The last call made again with the format frac_bits.fmt.
SameCall(fmt) ==
    CASE op = "freq_multiplier" -> freq_multiplier(gf, hf, frac, fmt)
      [] op = "tsc_offset" -> tsc_offset(ihtsc, igtsc, gf, hf, frac, fmt)
      [] op = "guest_tsc" -> guest_tsc(ihtsc, igtsc, hf, gf, chtsc, frac, fmt)

\* C23. int_bits influences only the ratio-overflow check: for fixed frac_bits
\* and inputs, if freq_multiplier, tsc_offset or guest_tsc succeed with
\* int_bits = a they succeed with every valid int_bits = b >= a, the omitted
\* default included, and return the identical value, so two formats with the
\* same frac_bits never return different values.
IntBitsOnlyRatioCheck ==
    (op \in {"freq_multiplier", "tsc_offset", "guest_tsc"} /\ IsOk(res)) =>
        \A fmt \in WiderFormats : SameCall(fmt) = res

\* guest_tsc returned a value with the smallest int_bits although a larger one
\* is valid: the ratio is below 2 and the format does not fill the word.
IntBitsOnlyRatioCheckWitness ==
    /\ op = "guest_tsc" /\ IsOk(res) /\ res.val > 0
    /\ int = Some(1) /\ frac + 1 < WordBits
    /\ gf > hf

====
